---- MODULE Spec2Model ----
(***************************************************************************)
(* map_box_from: the traits MapBoxFrom / MapBoxInto of src/src/convert.rs, *)
(* their two blanket implementations, and the documentation example        *)
(* (AsUnsized, into_unsized, into_sized, the bespoke identity impl).       *)
(*                                                                         *)
(* Three specifications share the variables:                               *)
(*   Spec          boxes on a heap and calls of map_box_from/map_box_into  *)
(*                 in the program of the documentation example;            *)
(*   SpecDoc       the statements of the documentation example, lines      *)
(*                 70-76 of convert.rs, run for every sized value;         *)
(*   SpecCoherence a downstream crate writing bespoke impls, and trait     *)
(*                 resolution of a request against the impls in scope.     *)
(***************************************************************************)
EXTENDS Integers, FiniteSets, TLC

VARIABLES
    fromImpls,    \* bespoke `impl MapBoxFrom<T> for R` of the program: pairs <<T, R>>
    intoImpls,    \* bespoke `impl MapBoxInto<R> for T` of the program: pairs <<T, R>>
    req,          \* the last trait request resolved, with its result
    heap,         \* address -> allocation
    owned,        \* the Box handles the program holds
    last,         \* the last operation run, its input and its result
    int,          \* doc example: `let int`
    boxed_int,    \* doc example: `let boxed_int`
    unboxed_int,  \* doc example: `let unboxed_int`
    pc            \* doc example: the statement to run next

vars == <<fromImpls, intoImpls, req, heap, owned, last, int, boxed_int, unboxed_int, pc>>

----------------------------------------------------------------------------
(* Bounds *)

\* Number of heap addresses.
MaxAddr == 2

\* Number of bespoke impls a downstream crate writes.
MaxBespoke == 2

----------------------------------------------------------------------------
(* Types *)

\* Sized types: the `i32` of the example, `bool` (std has From<bool> for i32),
\* and the `NewType<T>` of the crate documentation, at T = bool.
SizedTypes == {"bool", "i32", "NewType<bool>"}

\* `pub struct AsUnsized<T: ?Sized>(dyn DynSelf<T>)`: the unsized wrapper type.
AsUnsized(T) ==
    CASE T = "bool" -> "AsUnsized<bool>"
      [] T = "i32" -> "AsUnsized<i32>"
      [] T = "NewType<bool>" -> "AsUnsized<NewType<bool>>"

UnsizedTypes == {AsUnsized(T) : T \in SizedTypes}

Types == SizedTypes \cup UnsizedTypes

\* The T of an AsUnsized<T>.
Inner(U) == CHOOSE T \in SizedTypes : AsUnsized(T) = U

\* The implicit `Sized` bound of a type parameter not marked `?Sized`.
IsSized(T) == T \in SizedTypes

\* Types defined by the crate that uses the library, not by the library or std.
IsLocal(T) == T \in UnsizedTypes \cup {"NewType<bool>"}

\* size_of::<T>()
SizeOf(T) ==
    CASE T = "bool" -> 1
      [] T = "i32" -> 4
      [] T = "NewType<bool>" -> 1
      [] OTHER -> 0

\* x is a valid value of the sized type T (a value is the number its bytes hold).
IsValueOf(T, x) ==
    CASE T = "bool" -> x \in {0, 1}
      [] T = "i32" -> x >= -2147483647 - 1 /\ x <= 2147483647
      [] T = "NewType<bool>" -> x \in {0, 1}
      [] OTHER -> FALSE

\* The values of each sized type that the caller passes in.
ValuesOf(T) ==
    CASE T = "bool" -> {0, 1}
      [] T = "i32" -> {-1, 16}
      [] T = "NewType<bool>" -> {1}
      [] OTHER -> {}

SizedValues == UNION {{[ty |-> T, val |-> x] : x \in ValuesOf(T)} : T \in SizedTypes}

NoValue == [ty |-> "-", val |-> 0]

\* `T: Into<R>`: the native conversions. Into and From require Sized; every
\* sized type converts to itself, and bool converts to i32.
HasInto(T, R) ==
    /\ IsSized(T)
    /\ IsSized(R)
    /\ (T = R \/ (T = "bool" /\ R = "i32"))

\* `t.into()` at type R, for HasInto(t.ty, R).
Into(t, R) ==
    IF t.ty = R THEN t
    ELSE [ty |-> R, val |-> IF t.val = 0 THEN 0 ELSE 1]

----------------------------------------------------------------------------
(* Trait resolution *)

Pairs == Types \X Types

\* Faulty variant: a blanket impl that leaves the identity pairs out.
RuleBApplies_NoIdentity(T, R) == IsSized(T) /\ IsSized(R) /\ HasInto(T, R) /\ T # R

\* Faulty variant: a blanket impl that also covers the identity pair of every type,
\* as `impl<T> From<T> for T` does for From.
RuleBApplies_AnyIdentity(T, R) == T = R \/ (IsSized(T) /\ IsSized(R) /\ HasInto(T, R))

\* `impl<T, R> MapBoxFrom<T> for R where T: Into<R>` applies to <<T, R>>.
RuleBApplies(T, R) == IsSized(T) /\ IsSized(R) /\ HasInto(T, R)

\* The impls of MapBoxFrom<T> for R in scope.
FromCandidates(F, T, R) ==
    (IF <<T, R>> \in F THEN {"bespoke"} ELSE {}) \cup
    (IF RuleBApplies(T, R) THEN {"ruleB"} ELSE {})

\* `R: MapBoxFrom<T>` holds.
ImplementsFrom(F, T, R) == FromCandidates(F, T, R) # {}

\* Faulty variant: the blanket impl without `?Sized` on its parameters.
RuleAApplies_SizedOnly(F, T, R) == IsSized(T) /\ IsSized(R) /\ ImplementsFrom(F, T, R)

\* `impl<T: ?Sized, R: ?Sized> MapBoxInto<R> for T where R: MapBoxFrom<T>`
\* applies to <<T, R>>.
RuleAApplies(F, T, R) == ImplementsFrom(F, T, R)

\* The impls of MapBoxInto<R> for T in scope.
IntoCandidates(F, I, T, R) ==
    (IF <<T, R>> \in I THEN {"bespoke"} ELSE {}) \cup
    (IF RuleAApplies(F, T, R) THEN {"ruleA"} ELSE {})

\* The one impl a set of candidates selects.
Select(c) ==
    IF c = {} THEN "none"
    ELSE IF Cardinality(c) = 1 THEN CHOOSE x \in c : TRUE
    ELSE "conflict"

\* Faulty variant: resolution falls back on an identity impl when nothing applies.
ResolveFrom_Fallback(F, T, R) ==
    IF FromCandidates(F, T, R) = {} /\ T = R THEN "ruleB"
    ELSE Select(FromCandidates(F, T, R))

ResolveFrom(F, T, R) == Select(FromCandidates(F, T, R))

ResolveInto(F, I, T, R) == Select(IntoCandidates(F, I, T, R))

\* Coherence: no bespoke impl overlaps the blanket impl of its trait, that
\* is, no two impls of one trait apply to the same pair.
Coherent(F, I) ==
    /\ \A p \in F : ~RuleBApplies(p[1], p[2])
    /\ \A p \in I : ~RuleAApplies(F, p[1], p[2])

\* The orphan rule: an impl of the library's traits names a local type.
OrphanOk(F, I) == \A p \in F \cup I : IsLocal(p[1]) \/ IsLocal(p[2])

\* The program compiles.
Accepted(F, I) == Coherent(F, I) /\ OrphanOk(F, I)

\* `impl<T> MapBoxFrom<AsUnsized<T>> for AsUnsized<T>` of the example.
DocImpls == {<<U, U>> : U \in UnsizedTypes}

NoReq == [trait |-> "-", T |-> "-", R |-> "-", result |-> "-"]

----------------------------------------------------------------------------
(* The heap *)

Addrs == 1..MaxAddr

FreeCell == [live |-> FALSE, size |-> 0, val |-> 0]

NoHandle == [addr |-> 0, ty |-> "-", vt |-> "-"]

NoCall == [op |-> "-", src |-> NoHandle, arg |-> NoValue, R |-> "-",
           out |-> NoHandle, res |-> NoValue, via |-> "-"]

FreeAddrs(hp) == {a \in Addrs : ~hp[a].live}

\* The value a Box<T> of a sized T points to.
Deref(hp, h) == [ty |-> h.ty, val |-> hp[h.addr].val]

\* size_of_val(&*b): size_of of the pointee type for a thin pointer, the size
\* entry of the vtable for a trait object.
SizeOfVal(h) == IF h.vt = "-" THEN SizeOf(h.ty) ELSE SizeOf(h.vt)

\* Deallocation of the allocation behind a handle.
Dealloc(hp, h) == [hp EXCEPT ![h.addr] = FreeCell]

\* Box::new(v): the allocator picks any free address.
Box_new(hp, own, v) ==
    {LET h == [addr |-> a, ty |-> v.ty, vt |-> "-"]
     IN  [heap |-> [hp EXCEPT ![a] = [live |-> TRUE, size |-> SizeOf(v.ty), val |-> v.val]],
          owned |-> own \cup {h},
          out |-> h] : a \in FreeAddrs(hp)}

\* Faulty variant: the T is reboxed as it is, the native conversion is left out.
RuleB_NoConversion(hp, own, h, R) ==
    Box_new(Dealloc(hp, h), own \ {h}, Deref(hp, h))

\* Faulty variant: a conversion that gives up on a negative value and returns no box.
RuleB_Fallible(hp, own, h, R) ==
    IF Deref(hp, h).val < 0
    THEN {[heap |-> Dealloc(hp, h), owned |-> own \ {h}, out |-> NoHandle]}
    ELSE Box_new(Dealloc(hp, h), own \ {h}, Into(Deref(hp, h), R))

\* Faulty variant: the input is read through the box and stays owned by the caller.
RuleB_Borrowing(hp, own, h, R) ==
    Box_new(hp, own, Into(Deref(hp, h), R))

\* The blanket impl of MapBoxFrom<T> for R where T: Into<R>:
\*     value.pipe(|i| *i).into().into()
\* moves the T out of its box (which frees the box), converts it with the
\* native Into, and boxes the R (From<R> for Box<R>).
RuleB_map_box_from(hp, own, h, R) ==
    LET t == Deref(hp, h)
        r == Into(t, R)
    IN  Box_new(Dealloc(hp, h), own \ {h}, r)

\* Faulty variant: an impl that hands back the box with its content reset.
Identity_Zeroing(hp, own, h) ==
    {[heap |-> [hp EXCEPT ![h.addr].val = 0], owned |-> own, out |-> h]}

\* The bespoke impl of the example: `fn map_box_from(value) -> Box<Self> { value }`.
Identity_map_box_from(hp, own, h) == {[heap |-> hp, owned |-> own, out |-> h]}

\* R::map_box_from(value), by the impl resolution selects for <<T, R>>.
map_box_from(F, hp, own, h, R) ==
    LET via == ResolveFrom(F, h.ty, R)
    IN  CASE via = "ruleB" -> RuleB_map_box_from(hp, own, h, R)
          [] via = "bespoke" -> Identity_map_box_from(hp, own, h)
          [] OTHER -> {}

\* Faulty variant: the receiver is handed back as it is.
map_box_into_Identity(F, hp, own, h, R) == {[heap |-> hp, owned |-> own, out |-> h]}

\* Faulty variant: the call goes to the receiver's own type, T::map_box_from(self).
map_box_into_Reversed(F, hp, own, h, R) == map_box_from(F, hp, own, h, h.ty)

\* The blanket impl of MapBoxInto<R> for T: `R::map_box_from(self)`.
map_box_into(F, hp, own, h, R) == map_box_from(F, hp, own, h, R)

\* IntoUnsized::into_unsized(self): box the value as a trait object, assert
\* the size, and cast the raw pointer to *mut AsUnsized<T>.
into_unsized(hp, own, v) ==
    {LET boxed == [addr |-> o.out.addr, ty |-> "dyn DynSelf", vt |-> v.ty]
         h == [addr |-> boxed.addr, ty |-> AsUnsized(v.ty), vt |-> boxed.vt]
     IN  [heap |-> o.heap,
          owned |-> (o.owned \ {o.out}) \cup {h},
          out |-> h,
          ok |-> SizeOfVal(boxed) = SizeOf(v.ty)] : o \in Box_new(hp, own, v)}

\* AsUnsized<T>::into_sized(self: Box<Self>): assert the size, cast the raw
\* pointer to *mut T and move the T out of the box.
into_sized(hp, own, h) ==
    LET T == Inner(h.ty)
        thin == [addr |-> h.addr, ty |-> T, vt |-> "-"]
    IN  [heap |-> Dealloc(hp, thin),
         owned |-> own \ {h},
         res |-> Deref(hp, thin),
         ok |-> SizeOfVal(h) = SizeOf(T)]

----------------------------------------------------------------------------
(* Spec: boxes and conversion calls in the program of the example *)

IdleDoc ==
    /\ int = NoValue
    /\ boxed_int = NoHandle
    /\ unboxed_int = NoValue
    /\ pc = "-"

Init ==
    /\ fromImpls = DocImpls
    /\ intoImpls = {}
    /\ req = NoReq
    /\ heap = [a \in Addrs |-> FreeCell]
    /\ owned = {}
    /\ last = NoCall
    /\ IdleDoc

\* The caller boxes a sized value.
BoxNew(v) ==
    /\ \E o \in Box_new(heap, owned, v) :
        /\ heap' = o.heap
        /\ owned' = o.owned
        /\ last' = [NoCall EXCEPT !.op = "box_new", !.arg = v, !.out = o.out]
    /\ UNCHANGED <<fromImpls, intoImpls, req, int, boxed_int, unboxed_int, pc>>

\* The caller lifts a sized value: v.into_unsized().
IntoUnsized(v) ==
    /\ \E o \in into_unsized(heap, owned, v) :
        /\ heap' = o.heap
        /\ owned' = o.owned
        /\ last' = [NoCall EXCEPT !.op = "into_unsized", !.arg = v, !.out = o.out,
                                  !.via = IF o.ok THEN "-" ELSE "panic"]
    /\ UNCHANGED <<fromImpls, intoImpls, req, int, boxed_int, unboxed_int, pc>>

\* The caller lowers a wrapper: h.into_sized().
IntoSized(h) ==
    /\ h \in owned
    /\ h.ty \in UnsizedTypes
    /\ LET o == into_sized(heap, owned, h)
       IN  /\ heap' = o.heap
           /\ owned' = o.owned
           /\ last' = [NoCall EXCEPT !.op = "into_sized", !.src = h, !.res = o.res,
                                     !.via = IF o.ok THEN "-" ELSE "panic"]
    /\ UNCHANGED <<fromImpls, intoImpls, req, int, boxed_int, unboxed_int, pc>>

\* R::map_box_from(h): type-checks when R: MapBoxFrom<T> resolves.
CallMapBoxFrom(h, R) ==
    /\ h \in owned
    /\ ResolveFrom(fromImpls, h.ty, R) \in {"bespoke", "ruleB"}
    /\ Accepted(fromImpls, intoImpls)
    /\ \E o \in map_box_from(fromImpls, heap, owned, h, R) :
        /\ heap' = o.heap
        /\ owned' = o.owned
        /\ last' = [NoCall EXCEPT !.op = "map_box_from", !.src = h,
                                  !.arg = IF IsSized(h.ty) THEN Deref(heap, h) ELSE NoValue,
                                  !.R = R, !.out = o.out,
                                  !.via = ResolveFrom(fromImpls, h.ty, R)]
    /\ UNCHANGED <<fromImpls, intoImpls, req, int, boxed_int, unboxed_int, pc>>

\* h.map_box_into() at target type R: type-checks when T: MapBoxInto<R> resolves.
CallMapBoxInto(h, R) ==
    /\ h \in owned
    /\ ResolveInto(fromImpls, intoImpls, h.ty, R) = "ruleA"
    /\ Accepted(fromImpls, intoImpls)
    /\ \E o \in map_box_into(fromImpls, heap, owned, h, R) :
        /\ heap' = o.heap
        /\ owned' = o.owned
        /\ last' = [NoCall EXCEPT !.op = "map_box_into", !.src = h,
                                  !.arg = IF IsSized(h.ty) THEN Deref(heap, h) ELSE NoValue,
                                  !.R = R, !.out = o.out,
                                  !.via = ResolveFrom(fromImpls, h.ty, R)]
    /\ UNCHANGED <<fromImpls, intoImpls, req, int, boxed_int, unboxed_int, pc>>

Next ==
    \/ \E v \in SizedValues : BoxNew(v)
    \/ \E v \in SizedValues : IntoUnsized(v)
    \/ \E h \in owned : IntoSized(h)
    \/ \E h \in owned, R \in Types : CallMapBoxFrom(h, R)
    \/ \E h \in owned, R \in Types : CallMapBoxInto(h, R)

Spec == Init /\ [][Next]_vars

----------------------------------------------------------------------------
(* Properties of Spec *)

\* b is an owned Box<R> with a live allocation holding a value of R.
IsBox(hp, own, b, R) ==
    /\ b \in own
    /\ b.ty = R
    /\ b.addr \in Addrs
    /\ hp[b.addr].live
    /\ IsSized(R) => (IsValueOf(R, hp[b.addr].val) /\ hp[b.addr].size = SizeOf(R))

IsCall == last.op \in {"map_box_from", "map_box_into"}

\* C1: for sized T, R with T: Into<R> and no bespoke impl for the pair,
\* R::map_box_from(Box(t)) is a Box<R> whose content is t.into().
C1_NativeDelegation ==
    (/\ last.op = "map_box_from"
     /\ IsSized(last.src.ty) /\ IsSized(last.R)
     /\ HasInto(last.src.ty, last.R)
     /\ <<last.src.ty, last.R>> \notin fromImpls)
    => /\ last.via = "ruleB"
       /\ IsBox(heap, owned, last.out, last.R)
       /\ Deref(heap, last.out) = Into(last.arg, last.R)

C1_Witness ==
    /\ last.op = "map_box_from"
    /\ last.arg = [ty |-> "bool", val |-> 1]
    /\ last.R = "i32"
    /\ last.out \in owned
    /\ Deref(heap, last.out) = [ty |-> "i32", val |-> 1]

\* C2: wherever R: MapBoxFrom<T> is implemented, by a bespoke impl or by the
\* blanket impl over Into, T: MapBoxInto<R> resolves, and a map_box_into call
\* is a map_box_from step on the same box.
C2_Duality ==
    /\ [](\A p \in Pairs :
             ImplementsFrom(fromImpls, p[1], p[2])
             => ResolveInto(fromImpls, intoImpls, p[1], p[2]) = "ruleA")
    /\ [][last'.op = "map_box_into"
          => [heap |-> heap', owned |-> owned', out |-> last'.out]
                 \in map_box_from(fromImpls, heap, owned, last'.src, last'.R)]_vars

C2_Witness ==
    /\ last.op = "map_box_into"
    /\ last.via = "bespoke"
    /\ last.src.ty = "AsUnsized<i32>"
    /\ last.out \in owned

\* C6: every call that resolves has an outcome, and every outcome is an owned
\* Box<R>; no call ends in an error value.
C6_Infallible ==
    /\ \A h \in owned, R \in Types :
        /\ ResolveFrom(fromImpls, h.ty, R) \in {"bespoke", "ruleB"}
           => LET os == map_box_from(fromImpls, heap, owned, h, R)
              IN  os # {} /\ \A o \in os : IsBox(o.heap, o.owned, o.out, R)
        /\ ResolveInto(fromImpls, intoImpls, h.ty, R) = "ruleA"
           => LET os == map_box_into(fromImpls, heap, owned, h, R)
              IN  os # {} /\ \A o \in os : IsBox(o.heap, o.owned, o.out, R)
    /\ IsCall => IsBox(heap, owned, last.out, last.R)

C6_Witness ==
    /\ last.op = "map_box_into"
    /\ last.arg = [ty |-> "i32", val |-> -1]
    /\ IsBox(heap, owned, last.out, "i32")
    /\ Cardinality(owned) = MaxAddr

\* C9: a call takes its input box from the caller and hands back exactly one
\* box; no allocation has two owners, every live allocation has one, and
\* nothing else changes.
C9_OwnershipTransfer ==
    [][last'.op \in {"map_box_from", "map_box_into"}
       => /\ last'.src \in owned
          /\ owned' = (owned \ {last'.src}) \cup {last'.out}
          /\ \A a \in Addrs \ {last'.src.addr, last'.out.addr} : heap'[a] = heap[a]
          /\ \A h1 \in owned', h2 \in owned' : h1.addr = h2.addr => h1 = h2
          /\ \A a \in Addrs : heap'[a].live <=> \E h1 \in owned' : h1.addr = a
          /\ UNCHANGED <<fromImpls, intoImpls, req, int, boxed_int, unboxed_int, pc>>]_vars

C9_Witness ==
    /\ last.op = "map_box_from"
    /\ last.via = "ruleB"
    /\ last.src \notin owned
    /\ last.out \in owned
    /\ Cardinality(owned) = 2

\* C10: for sized T, R with T: Into<R>, Box(t).map_box_into() has the source
\* type T as receiver and yields a Box<R> holding t.into(); the conversion
\* runs from T to R, never from R to T.
C10_IntoDirection ==
    last.op = "map_box_into" /\ IsSized(last.src.ty)
    => /\ HasInto(last.src.ty, last.R)
       /\ last.arg.ty = last.src.ty
       /\ last.via = "ruleB"
       /\ IsBox(heap, owned, last.out, last.R)
       /\ Deref(heap, last.out) = Into(last.arg, last.R)

C10_Witness ==
    /\ last.op = "map_box_into"
    /\ last.arg = [ty |-> "bool", val |-> 0]
    /\ last.R = "i32"
    /\ last.out \in owned
    /\ Deref(heap, last.out) = [ty |-> "i32", val |-> 0]

----------------------------------------------------------------------------
(* SpecDoc: the statements of the documentation example *)

\* The heap the example starts on: any boxes of the surrounding program, and
\* at least one free address.
InitDoc ==
    /\ fromImpls = DocImpls
    /\ intoImpls = {}
    /\ req = NoReq
    /\ last = NoCall
    /\ \E f \in [Addrs -> SizedValues \cup {NoValue}] :
        /\ \E a \in Addrs : f[a] = NoValue
        /\ heap = [a \in Addrs |->
                      IF f[a] = NoValue THEN FreeCell
                      ELSE [live |-> TRUE, size |-> SizeOf(f[a].ty), val |-> f[a].val]]
        /\ owned = {[addr |-> a, ty |-> f[a].ty, vt |-> "-"] : a \in {b \in Addrs : f[b] # NoValue}}
    /\ int \in SizedValues
    /\ boxed_int = NoHandle
    /\ unboxed_int = NoValue
    /\ pc = "start"

\* let boxed_int = int.into_unsized();
\* debug_assert!(size_of_val(boxed_int.deref()) == size_of::<i32>());
DocLift ==
    /\ pc = "start"
    /\ \E o \in into_unsized(heap, owned, int) :
        /\ heap' = o.heap
        /\ owned' = o.owned
        /\ boxed_int' = o.out
        /\ pc' = IF o.ok /\ SizeOfVal(o.out) = SizeOf(int.ty) THEN "lifted" ELSE "panic"
    /\ UNCHANGED <<fromImpls, intoImpls, req, last, int, unboxed_int>>

\* let boxed_int = AsUnsized::<i32>::map_box_from(boxed_int);
DocMap ==
    /\ pc = "lifted"
    /\ ResolveFrom(fromImpls, boxed_int.ty, boxed_int.ty) \in {"bespoke", "ruleB"}
    /\ Accepted(fromImpls, intoImpls)
    /\ \E o \in map_box_from(fromImpls, heap, owned, boxed_int, boxed_int.ty) :
        /\ heap' = o.heap
        /\ owned' = o.owned
        /\ boxed_int' = o.out
        /\ pc' = "mapped"
    /\ UNCHANGED <<fromImpls, intoImpls, req, last, int, unboxed_int>>

\* let unboxed_int = boxed_int.into_sized();
DocLower ==
    /\ pc = "mapped"
    /\ LET o == into_sized(heap, owned, boxed_int)
       IN  /\ heap' = o.heap
           /\ owned' = o.owned
           /\ unboxed_int' = o.res
           /\ boxed_int' = NoHandle
           /\ pc' = IF o.ok THEN "lowered" ELSE "panic"
    /\ UNCHANGED <<fromImpls, intoImpls, req, last, int>>

\* debug_assert!(int == unboxed_int);
DocAssert ==
    /\ pc = "lowered"
    /\ pc' = IF int = unboxed_int THEN "done" ELSE "panic"
    /\ UNCHANGED <<fromImpls, intoImpls, req, last, heap, owned, int, boxed_int, unboxed_int>>

NextDoc == DocLift \/ DocMap \/ DocLower \/ DocAssert

SpecDoc == InitDoc /\ [][NextDoc]_vars

\* C3: a sized value lifted with into_unsized, passed through the bespoke
\* identity map_box_from and lowered with into_sized is the value it was; no
\* assertion of the example fails.
C3_RoundTrip ==
    /\ pc # "panic"
    /\ pc \in {"lowered", "done"} => unboxed_int = int

C3_Witness ==
    /\ pc = "done"
    /\ int = [ty |-> "i32", val |-> 16]
    /\ unboxed_int = [ty |-> "i32", val |-> 16]
    /\ owned # {}

----------------------------------------------------------------------------
(* SpecCoherence: a downstream crate writes impls; requests are resolved *)

InitCoherence ==
    /\ fromImpls = {}
    /\ intoImpls = {}
    /\ req = NoReq
    /\ heap = [a \in Addrs |-> FreeCell]
    /\ owned = {}
    /\ last = NoCall
    /\ IdleDoc

\* The crate adds `impl MapBoxFrom<T> for R` (the source is edited before it is built).
WriteFromImpl(T, R) ==
    /\ req = NoReq
    /\ <<T, R>> \notin fromImpls
    /\ Cardinality(fromImpls) + Cardinality(intoImpls) < MaxBespoke
    /\ fromImpls' = fromImpls \cup {<<T, R>>}
    /\ UNCHANGED <<req, intoImpls, heap, owned, last, int, boxed_int, unboxed_int, pc>>

\* The crate adds `impl MapBoxInto<R> for T` (the source is edited before it is built).
WriteIntoImpl(T, R) ==
    /\ req = NoReq
    /\ <<T, R>> \notin intoImpls
    /\ Cardinality(fromImpls) + Cardinality(intoImpls) < MaxBespoke
    /\ intoImpls' = intoImpls \cup {<<T, R>>}
    /\ UNCHANGED <<req, fromImpls, heap, owned, last, int, boxed_int, unboxed_int, pc>>

\* The build resolves a use of `R: MapBoxFrom<T>` in a program that compiles.
RequestFrom(T, R) ==
    /\ req = NoReq
    /\ Accepted(fromImpls, intoImpls)
    /\ req' = [trait |-> "MapBoxFrom", T |-> T, R |-> R,
                result |-> ResolveFrom(fromImpls, T, R)]
    /\ UNCHANGED <<fromImpls, intoImpls, heap, owned, last, int, boxed_int, unboxed_int, pc>>

\* The build resolves a use of `T: MapBoxInto<R>` in a program that compiles.
RequestInto(T, R) ==
    /\ req = NoReq
    /\ Accepted(fromImpls, intoImpls)
    /\ req' = [trait |-> "MapBoxInto", T |-> T, R |-> R,
                result |-> ResolveInto(fromImpls, intoImpls, T, R)]
    /\ UNCHANGED <<fromImpls, intoImpls, heap, owned, last, int, boxed_int, unboxed_int, pc>>

\* The types the impls and requests of the downstream crate range over.
CrateTypes == SizedTypes \cup {AsUnsized("i32"), AsUnsized("bool")}

NextCoherence ==
    \/ \E T \in CrateTypes, R \in CrateTypes : WriteFromImpl(T, R)
    \/ \E T \in CrateTypes, R \in CrateTypes : WriteIntoImpl(T, R)
    \/ \E T \in CrateTypes, R \in CrateTypes : RequestFrom(T, R)
    \/ \E T \in CrateTypes, R \in CrateTypes : RequestInto(T, R)

SpecCoherence == InitCoherence /\ [][NextCoherence]_vars

----------------------------------------------------------------------------
(* Properties of SpecCoherence *)

\* The native conversion T: Into<R> exists between sized T and R.
NativePair(T, R) == T \in SizedTypes /\ R \in SizedTypes /\ HasInto(T, R)

\* R: MapBoxFrom<T> is implemented, by a bespoke impl or through Into.
FromHolds(T, R) == <<T, R>> \in fromImpls \/ NativePair(T, R)

\* C4: in a program that compiles no bespoke impl of MapBoxFrom names a
\* sized pair with a native conversion, so a MapBoxFrom request never has
\* both a bespoke impl and the blanket impl to choose from.
C4_FromCoherence ==
    /\ Accepted(fromImpls, intoImpls)
       => \A p \in fromImpls : ~NativePair(p[1], p[2])
    /\ req.trait = "MapBoxFrom"
       => /\ req.result # "conflict"
          /\ req.result = "bespoke" => ~NativePair(req.T, req.R)
          /\ NativePair(req.T, req.R) => req.result = "ruleB"

\* A bespoke impl for a sized pair that Into covers: the program is rejected.
C4_Witness ==
    /\ <<"NewType<bool>", "NewType<bool>">> \in fromImpls
    /\ OrphanOk(fromImpls, intoImpls)
    /\ ~Accepted(fromImpls, intoImpls)

\* C5: in a program that compiles no bespoke impl of MapBoxInto names a pair
\* for which MapBoxFrom is implemented; for such a pair a MapBoxInto request
\* selects the blanket impl over MapBoxFrom.
C5_IntoNotIndependent ==
    /\ Accepted(fromImpls, intoImpls)
       => \A p \in intoImpls : ~FromHolds(p[1], p[2])
    /\ req.trait = "MapBoxInto" /\ FromHolds(req.T, req.R)
       => req.result = "ruleA"

\* MapBoxFrom and MapBoxInto both written for one unsized pair: rejected.
C5_Witness ==
    /\ <<"AsUnsized<i32>", "AsUnsized<i32>">> \in fromImpls
    /\ <<"AsUnsized<i32>", "AsUnsized<i32>">> \in intoImpls
    /\ OrphanOk(fromImpls, intoImpls)
    /\ ~Accepted(fromImpls, intoImpls)

\* C7 as stated: a request resolves exactly when a bespoke MapBoxFrom impl,
\* the blanket impl over Into, or the blanket impl over MapBoxFrom applies.
C7_ThreeSources ==
    req # NoReq
    => /\ req.result \in {"none", "bespoke", "ruleA", "ruleB"}
       /\ req.result # "none" <=> FromHolds(req.T, req.R)

\* C7 amended: a MapBoxFrom request resolves exactly when a bespoke MapBoxFrom
\* impl or the blanket impl over Into applies; a MapBoxInto request resolves
\* exactly when the blanket impl over MapBoxFrom applies or a bespoke
\* MapBoxInto impl is written for the pair. Otherwise resolution fails; no
\* other impl is ever selected.
C7_Resolution ==
    /\ req.trait = "MapBoxFrom"
       => /\ req.result \in {"none", "bespoke", "ruleB"}
          /\ req.result = "bespoke" <=> <<req.T, req.R>> \in fromImpls
          /\ req.result = "ruleB" <=> NativePair(req.T, req.R)
          /\ req.result = "none" <=> ~FromHolds(req.T, req.R)
    /\ req.trait = "MapBoxInto"
       => /\ req.result \in {"none", "bespoke", "ruleA"}
          /\ req.result = "bespoke" <=> <<req.T, req.R>> \in intoImpls
          /\ req.result = "ruleA" <=> FromHolds(req.T, req.R)
          /\ req.result = "none"
             <=> ~FromHolds(req.T, req.R) /\ <<req.T, req.R>> \notin intoImpls

\* A request on a pair no impl covers fails, whatever else the program implements.
C7_Witness ==
    /\ req = [trait |-> "MapBoxInto", T |-> "i32", R |-> "bool", result |-> "none"]
    /\ fromImpls # {}
    /\ intoImpls # {}

\* C8: the blanket impl over Into covers the identity pair of T exactly when
\* T is sized and covers no pair that names an unsized type; an unsized
\* identity pair resolves only through a bespoke impl, and a bespoke impl
\* that names an unsized type overlaps no blanket impl of MapBoxFrom.
C8_SizedOnly ==
    /\ \A T \in Types :
        /\ <<T, T>> \notin fromImpls => (ImplementsFrom(fromImpls, T, T) <=> T \in SizedTypes)
        /\ T \in UnsizedTypes
           => \A R \in Types :
                  /\ (<<T, R>> \notin fromImpls => ~ImplementsFrom(fromImpls, T, R))
                  /\ (<<R, T>> \notin fromImpls => ~ImplementsFrom(fromImpls, R, T))
    /\ \A p \in fromImpls :
        p[1] \in UnsizedTypes \/ p[2] \in UnsizedTypes
        => FromCandidates(fromImpls, p[1], p[2]) = {"bespoke"}
    /\ (/\ intoImpls = {}
        /\ \A p \in fromImpls : p[1] \in UnsizedTypes \/ p[2] \in UnsizedTypes)
       => Accepted(fromImpls, intoImpls)
    /\ req.trait = "MapBoxFrom" /\ req.T \in UnsizedTypes /\ req.R = req.T
       => /\ (req.result = "bespoke" <=> <<req.T, req.R>> \in fromImpls)
          /\ (req.result = "none" <=> <<req.T, req.R>> \notin fromImpls)

\* The bespoke identity impl of an unsized type compiles and is the impl selected.
C8_Witness ==
    /\ fromImpls = {<<"AsUnsized<i32>", "AsUnsized<i32>">>}
    /\ Accepted(fromImpls, intoImpls)
    /\ req = [trait |-> "MapBoxFrom", T |-> "AsUnsized<i32>", R |-> "AsUnsized<i32>",
               result |-> "bespoke"]

====
